---- MODULE Spec2Model ----
(***************************************************************************)
(* SSD1306Fnt: glyph normalisation, page packing, codepoint grouping and   *)
(* the generator run, modelled from ssd1306fnt.py.                         *)
(*                                                                         *)
(* Python lists are sequences (1-based here, 0-based in the source);       *)
(* a glyph is a sequence of rows, a row a sequence of 0/1 pixels.          *)
(* A raised exception is a result record with a non-empty err field.       *)
(***************************************************************************)
EXTENDS Integers, Sequences, FiniteSets, TLC

VARIABLES
    pc,             \* position of the caller / of app()
    glyph_2d,       \* bitmap argument of a direct call
    g_width,        \* convert_to_ssd1306_format's g_width
    g_height,       \* convert_to_ssd1306_format's g_height
    hor_mode,       \* hor_mode / hor_pages / args.horizontal_paging
    target_width,   \* append_width's target_width
    face_bitmap,    \* face.glyph.bitmap after face_load_char: [width, rows, buffer]
    glyph_w,        \* args.glyph_width (NoneVal when absent)
    glyph_h,        \* args.glyph_height
    left_fields,    \* args.fields_left
    right_fields,   \* args.fields_right
    pad_width,      \* prepare_for_ssd1306's pad_width (NoneVal when absent)
    result,         \* what the call returned or raised
    chars,          \* chars_to_gen: the sorted characters, as code points
    reduced_char_groups,  \* groups_reduce(group_chars(chars))
    utf8_code,      \* argument of the generated get_glyph_index
    glyph_index,    \* what the generated get_glyph_index returned
    face,           \* the font: what the rasterizer returns for each character
    glyph_width_equal,    \* args.glyph_width_equal
    ssd1306_glyph_data,   \* the (char, packed glyph) pairs built so far
    out_h_file,     \* the declaration artifact: [state, text]
    out_c_file      \* the definition artifact: [state, text]

codecArgs == <<glyph_2d, g_width, g_height, target_width>>
glyphArgs == <<face_bitmap, glyph_w, glyph_h, left_fields, right_fields, pad_width>>
groupVars == <<chars, reduced_char_groups, utf8_code, glyph_index>>
appVars == <<face, glyph_width_equal, ssd1306_glyph_data, out_h_file, out_c_file>>

vars == <<pc, codecArgs, hor_mode, glyphArgs, result, groupVars, appVars>>

\* ------------------------------------------------------------------ bounds
MaxW == 2        \* widest bitmap handed to the codec / normaliser directly
MaxH == 17       \* tallest bitmap handed to the codec directly (two pages + 1)
MaxLit == 1      \* bitmaps have at most MaxLit lit pixels, or are the inverse of one
MaxPad == 3      \* append_width is asked for up to MaxPad extra columns
MaxGlyphW == 1   \* largest --glyph_width
MaxPages == 2    \* largest --glyph_height, in pages
MaxField == 1    \* largest --fields_left / --fields_right
MaxRawW == 2     \* widest bitmap the rasterizer returns
MaxRawH == 9     \* tallest bitmap the rasterizer returns (one page + 1)
MaxRows == 2     \* tallest bitmap handed to append_width directly
Span == 1        \* characters lie within Span of a code point of CharBases
MaxChars == 3    \* longest character list handed to group_chars
MaxArgH == 17    \* largest --glyph_height asked of app()

\* --------------------------------------------------------------- constants
ssd1306_page_size == 8

NoneVal == -1    \* Python's None for an optional integer argument

\* ----------------------------------------------------------------- helpers
RECURSIVE Pow2(_)
Pow2(n) == IF n = 0 THEN 1 ELSE 2 * Pow2(n - 1)

\* Python's a | b on non-negative integers
RECURSIVE BitOr(_, _)
BitOr(a, b) ==
    IF a = 0 THEN b
    ELSE IF b = 0 THEN a
    ELSE (IF (a % 2 = 1) \/ (b % 2 = 1) THEN 1 ELSE 0) + 2 * BitOr(a \div 2, b \div 2)

Ok(v) == [err |-> "", val |-> v]
Raise(msg) == [err |-> msg, val |-> <<>>]

\* [0] * n
Zeros(n) == [i \in 1..n |-> 0]

\* subsets of S with at most k elements
RECURSIVE SubsetsUpTo(_, _)
SubsetsUpTo(S, k) ==
    IF k = 0 THEN {{}}
    ELSE LET prev == SubsetsUpTo(S, k - 1)
         IN  prev \cup {T \cup {e} : T \in prev, e \in S}

\* the w x h bitmaps with at most k lit pixels, and their inverses
Bitmaps(w, h, k) ==
    { [y \in 1..h |-> [x \in 1..w |-> IF (<<y, x>> \in lit) = (inv = 0) THEN 1 ELSE 0]] :
        lit \in SubsetsUpTo((1..h) \X (1..w), k), inv \in {0, 1} }

\* ------------------------------------------------------------ normaliser
glyph_insert_empty_cols(g, columns_left, columns_right) ==
    [r \in 1..Len(g) |-> Zeros(columns_left) \o g[r] \o Zeros(columns_right)]

append_height(g, target_height) ==
    IF Len(g) < 1 THEN Raise("Glyph is empty!")
    ELSE LET count_to_append == target_height - Len(g)
             width == Len(g[1])
             appendix == [i \in 1..count_to_append |-> Zeros(width)]
         IN  Ok(appendix \o g)

\* variant of diff_start: the larger half on the left
diff_start_swapped(width_diff) == width_diff - width_diff \div 2

diff_start(width_diff) == width_diff \div 2

append_width(g, t_width) ==
    IF Len(g) < 1 THEN Raise("Glyph is empty!")
    ELSE LET glp_width == Len(g[1])
             width_diff == t_width - glp_width
         IN  IF glp_width < 1 THEN Raise("Glyph has no width!")
             ELSE IF width_diff < 0
                  THEN Raise("Glyph has bigger width than it should be appended!")
             ELSE IF width_diff = 0 THEN Ok(g)
             ELSE LET d_start == diff_start(width_diff)
                      d_end == width_diff - d_start
                  IN  Ok(glyph_insert_empty_cols(g, d_start, d_end))

append_glyph(g, t_width, target_height) ==
    LET widened == append_width(g, t_width)
    IN  IF widened.err # "" THEN widened
        ELSE append_height(widened.val, target_height)

\* ----------------------------------------------------------------- codec
\* variant of get_pixel: the mirrored bit order, page[y] << (7 - y)
get_pixel_mirrored(page, y) == page[y + 1] * Pow2(7 - y)

\* page[y] << y, y counted from 0
get_pixel(page, y) == page[y + 1] * Pow2(y)

\* Python's s[a:b] for 0 <= a <= b: the slice stops at the end of s
PySlice(s, a, b) == SubSeq(s, a + 1, IF b < Len(s) THEN b ELSE Len(s))

\* variant of take_page: page_start not advanced with the page
take_page_first(glyph_rotated, col, page) ==
    PySlice(glyph_rotated[col + 1], 0, ssd1306_page_size)

take_page(glyph_rotated, col, page) ==
    LET page_start == page * ssd1306_page_size
        page_end == page_start + ssd1306_page_size
    IN  PySlice(glyph_rotated[col + 1], page_start, page_end)

RECURSIVE OrAll(_, _)
OrAll(page_bin, page_value) ==
    IF page_bin = <<>> THEN page_value
    ELSE OrAll(Tail(page_bin), BitOr(page_value, Head(page_bin)))

build_page(glyph_rotated, page, col) ==
    LET pg == take_page(glyph_rotated, col, page)
        page_bin == [r \in 1..Len(pg) |-> get_pixel(pg, r - 1)]
    IN  OrAll(page_bin, 0)

\* variant of page_per_col_of: a page too many
page_per_col_extra(gh) == gh \div ssd1306_page_size + 1

page_per_col_of(gh) == gh \div ssd1306_page_size

convert_to_ssd1306_format(g, gw, gh, hor) ==
    IF gw >= 1 /\ gh >= 1 /\ (gh > Len(g) \/ gw > Len(g[1]))
    THEN Raise("IndexError")
    ELSE
    LET glyph_rotated == [x \in 1..gw |-> [y \in 1..gh |-> g[y][x]]]
        page_per_col == page_per_col_of(gh)
        n == page_per_col * gw
    IN  IF hor
        THEN Ok([i \in 1..n |-> build_page(glyph_rotated, (i - 1) \div gw, (i - 1) % gw)])
        ELSE Ok([i \in 1..n |-> build_page(glyph_rotated, (i - 1) % page_per_col,
                                           (i - 1) \div page_per_col)])

\* ------------------------------------------------------- the rasterizer
\* FreeType's mono bitmap of a w x h picture: one bit per pixel, rows padded
\* to whole bytes, most significant bit first
RasterByte(row, b) ==
    LET bit(i) == IF 8 * b + i + 1 <= Len(row) THEN row[8 * b + i + 1] ELSE 0
    IN  bit(0) * 128 + bit(1) * 64 + bit(2) * 32 + bit(3) * 16
        + bit(4) * 8 + bit(5) * 4 + bit(6) * 2 + bit(7)

Raster(bm, w, h) ==
    LET pitch == (w + 7) \div 8
    IN  [width |-> w, rows |-> h,
         buffer |-> [i \in 1..(h * pitch) |->
                        RasterByte(bm[(i - 1) \div pitch + 1], (i - 1) % pitch)]]

\* pictures the rasterizer may return: blank, full, the top or the bottom row
\* lit, one column lit
RawPictures(w, h) ==
    {[y \in 1..h |-> [x \in 1..w |-> v]] : v \in {0, 1}}
    \cup {[y \in 1..h |-> [x \in 1..w |-> IF y = r THEN 1 ELSE 0]] : r \in {1, h}}
    \cup {[y \in 1..h |-> [x \in 1..w |-> IF x = c THEN 1 ELSE 0]] : c \in 1..w}

FaceBitmaps ==
    UNION {{Raster(bm, w, h) : bm \in RawPictures(w, h)} : w \in 0..MaxRawW, h \in 0..MaxRawH}

\* ---------------------------------------------------------- generate_glyph
\* glyph_2d as decoded from the bitmap buffer
decode_bitmap(bitmap) ==
    LET glyph_width == bitmap.width
        glyph_height == bitmap.rows
        glyph_img == bitmap.buffer
        bytes_per_row == Len(glyph_img) \div glyph_height
        row_of(y) ==
            LET row_bytes == PySlice(glyph_img, y * bytes_per_row,
                                     y * bytes_per_row + bytes_per_row)
                bits == [k \in 1..(Len(row_bytes) * 8) |->
                            LET row_bit_index == k - 1
                                byte_index == row_bit_index \div 8
                                bit_index == 7 - (row_bit_index % 8)
                            IN  IF (row_bytes[byte_index + 1] \div Pow2(bit_index)) % 2 > 0
                                THEN 1 ELSE 0]
            IN  PySlice(bits, 0, glyph_width)
    IN  [y \in 1..glyph_height |-> row_of(y - 1)]

generate_glyph(bitmap, width, height, l_fields, r_fields, p_width) ==
    IF bitmap.rows = 0 THEN Raise("ZeroDivisionError")
    ELSE LET g == decode_bitmap(bitmap)
             glyph_appended ==
                 IF p_width # NoneVal THEN append_glyph(g, p_width, height)
                 ELSE IF width > 0 THEN append_glyph(g, width, height)
                 ELSE append_height(g, height)
         IN  IF glyph_appended.err # "" THEN glyph_appended
             ELSE Ok(glyph_insert_empty_cols(glyph_appended.val, l_fields, r_fields))

glyph_size(g) ==
    IF Len(g) < 1 THEN Raise("Glyph has incorrect height!")
    ELSE IF Len(g[1]) < 1 THEN Raise("Glyph has incorrect width!")
    ELSE Ok(<<Len(g[1]), Len(g)>>)

\* ------------------------------------------ prepare_for_ssd1306.build_glyph
Built(e, g, d, ww, wh) == [err |-> e, glyph |-> g, val |-> d, warn_w |-> ww, warn_h |-> wh]

build_glyph(bitmap, gw, gh, l_fields, r_fields, hor, p_width) ==
    LET gen == generate_glyph(bitmap, IF gw # NoneVal THEN gw ELSE 0, gh,
                              l_fields, r_fields, p_width)
    IN  IF gen.err # "" THEN Built(gen.err, <<>>, <<>>, FALSE, FALSE)
        ELSE
        LET glyph == gen.val
            size == glyph_size(glyph)
        IN  IF size.err # "" THEN Built(size.err, glyph, <<>>, FALSE, FALSE)
            ELSE
            LET cut_w == gw # NoneVal /\ size.val[1] > gw
                cut_h == 0 < gh /\ gh < size.val[2]
                real_w == IF cut_w THEN gw ELSE size.val[1]
                real_h == IF cut_h THEN gh ELSE size.val[2]
                ssd_glyph == convert_to_ssd1306_format(glyph, real_w, real_h, hor)
            IN  IF ssd_glyph.err # "" THEN Built(ssd_glyph.err, glyph, <<>>, cut_w, cut_h)
                ELSE Built("", glyph, <<real_w, real_h>> \o ssd_glyph.val, cut_w, cut_h)

\* -------------------------------------------------- codepoint groups
\* the characters a run may be asked for: code points next to 'A' and next to
\* the places where the UTF-8 form changes its lead byte or its length
CharBases == {65, 128, 192, 2048}

CharUniverse == UNION {(b - Span)..(b + Span) : b \in CharBases}

\* int.from_bytes(char.encode('utf-8'), byteorder='big') of the code point cp
utf_8_encode(cp) ==
    IF cp < 128 THEN cp
    ELSE IF cp < 2048 THEN (192 + cp \div 64) * 256 + (128 + (cp % 64))
    ELSE IF cp < 65536
         THEN (224 + cp \div 4096) * 65536 + (128 + ((cp \div 64) % 64)) * 256 + (128 + (cp % 64))
    ELSE (240 + cp \div 262144) * 16777216 + (128 + ((cp \div 4096) % 64)) * 65536
         + (128 + ((cp \div 64) % 64)) * 256 + (128 + (cp % 64))

SetMin(S) == CHOOSE m \in S : \A e \in S : m <= e
SetMax(S) == CHOOSE m \in S : \A e \in S : e <= m

\* list(set(result)) then sort(): Python orders one-character strings by code point
RECURSIVE parse_chars_to_convert(_)
parse_chars_to_convert(S) ==
    IF S = {} THEN <<>>
    ELSE <<SetMin(S)>> \o parse_chars_to_convert(S \ {SetMin(S)})

\* variant of calculate_offset: the raw code point instead of its UTF-8 form
calculate_offset_codepoint(cs, index) == <<cs[index + 1], cs[index + 1] - index>>

\* variant of calculate_offset: the index added instead of subtracted
calculate_offset_plus(cs, index) == <<cs[index + 1], utf_8_encode(cs[index + 1]) + index>>

calculate_offset(cs, index) == <<cs[index + 1], utf_8_encode(cs[index + 1]) - index>>

\* itertools.groupby(chars_offset, key = offset): runs of neighbours with equal key
RECURSIVE groupby(_, _)
groupby(chars_offset, acc) ==
    IF chars_offset = <<>> THEN acc
    ELSE LET item == Head(chars_offset)
             n == Len(acc)
         IN  IF n > 0 /\ acc[n][1] = item[2]
             THEN groupby(Tail(chars_offset),
                          [acc EXCEPT ![n] = <<acc[n][1], Append(acc[n][2], item[1])>>])
             ELSE groupby(Tail(chars_offset), Append(acc, <<item[2], <<item[1]>>>>))

group_chars(cs) ==
    groupby([k \in 1..Len(cs) |-> calculate_offset(cs, k - 1)], <<>>)

reduce_group(group) ==
    LET offset == group[1]
        items == {group[2][k] : k \in 1..Len(group[2])}
    IN  <<offset, SetMin(items), SetMax(items)>>

groups_reduce(groups) == [k \in 1..Len(groups) |-> reduce_group(groups[k])]

\* the generated statement: if (cond) { return utf8_code - offset; };
c_gen_group_if(group) ==
    LET item_min == utf_8_encode(group[2])
        item_max == utf_8_encode(group[3])
    IN  [eq |-> item_min = item_max, item_min |-> item_min, item_max |-> item_max,
         offset |-> group[1]]

\* the statements c_src_write_lookup_func writes, in order
lookup_func(reduced_groups) ==
    [k \in 1..Len(reduced_groups) |-> c_gen_group_if(reduced_groups[k])]

\* running the generated get_glyph_index on x: the first range check that
\* matches returns, return 0 otherwise
RECURSIVE get_glyph_index(_, _)
get_glyph_index(stmts, x) ==
    IF stmts = <<>> THEN 0
    ELSE LET st == Head(stmts)
             cond == IF st.eq THEN st.item_min = x
                     ELSE st.item_min <= x /\ x <= st.item_max
         IN  IF cond THEN x - st.offset ELSE get_glyph_index(Tail(stmts), x)

\* ------------------------------------------------------------------ app
\* lines 476-483: the height is raised to a positive multiple of the page size
adjust_height(h) ==
    LET h1 == IF h < ssd1306_page_size THEN ssd1306_page_size ELSE h
        glyph_h_rem == h1 % ssd1306_page_size
    IN  IF glyph_h_rem > 0 THEN h1 + (ssd1306_page_size - glyph_h_rem) ELSE h1

\* the characters and the renderings of the runs of app() that are explored
AppChars == {65, 66}

AppFaceSizes == {<<0, 0>>, <<1, ssd1306_page_size>>, <<MaxRawW, MaxRawH>>}

AppFaceBitmaps ==
    {Raster([y \in 1..sz[2] |-> [x \in 1..sz[1] |-> 1]], sz[1], sz[2]) : sz \in AppFaceSizes}

absent == [state |-> "absent", text |-> <<>>]

\* open(path, 'w'): the file exists and is empty
open_w == [state |-> "open", text |-> <<>>]

\* variant of after_glyph: a failed glyph is skipped and the run goes on
after_glyph_skip(built, data, char) ==
    IF built.err # "" THEN [pc |-> "glyphs", data |-> Append(data, <<char, <<>>>>)]
    ELSE [pc |-> "glyphs", data |-> Append(data, <<char, built.val>>)]

\* one element of prepare_for_ssd1306's list: an exception leaves app()
after_glyph(built, data, char) ==
    IF built.err # "" THEN [pc |-> "aborted", data |-> data]
    ELSE [pc |-> "glyphs", data |-> Append(data, <<char, built.val>>)]

\* ------------------------------------------------------------ idle values
NoBitmap == [width |-> 0, rows |-> 0, buffer |-> <<>>]

CodecIdle == glyph_2d = <<>> /\ g_width = 0 /\ g_height = 0 /\ target_width = NoneVal

GlyphIdle ==
    /\ face_bitmap = NoBitmap
    /\ glyph_w = NoneVal /\ glyph_h = 0 /\ left_fields = 0 /\ right_fields = 0
    /\ pad_width = NoneVal

GroupIdle == chars = <<>> /\ reduced_char_groups = <<>> /\ utf8_code = 0 /\ glyph_index = 0

AppIdle ==
    /\ face = <<>> /\ glyph_width_equal = FALSE /\ ssd1306_glyph_data = <<>>
    /\ out_h_file = absent /\ out_c_file = absent

\* --------------------------------- the codec and build_glyph, one call each
InitConvert ==
    /\ pc = "call_convert"
    /\ \E w \in 1..MaxW, h \in 1..MaxH :
         /\ glyph_2d \in Bitmaps(w, h, MaxLit)
         /\ g_width = w
         /\ g_height = h
    /\ hor_mode \in BOOLEAN
    /\ target_width = NoneVal
    /\ GlyphIdle /\ GroupIdle /\ AppIdle
    /\ result = Ok(<<>>)

\* app() hands prepare_for_ssd1306 a glyph_h that adjust_height produced; with
\* glyph_w absent or 0 the glyph is loaded at the size find_max_glyph_width
\* measured it at, so it is no wider than pad_width
InitBuild ==
    /\ pc = "call_build"
    /\ CodecIdle /\ GroupIdle /\ AppIdle
    /\ hor_mode \in BOOLEAN
    /\ face_bitmap \in FaceBitmaps
    /\ glyph_w \in {NoneVal} \cup (0..MaxGlyphW)
    /\ glyph_h \in {ssd1306_page_size * k : k \in 1..MaxPages}
    /\ left_fields \in 0..MaxField
    /\ right_fields \in 0..MaxField
    /\ pad_width \in {NoneVal} \cup (0..MaxRawW)
    /\ (glyph_w \in {NoneVal, 0} /\ pad_width # NoneVal) => face_bitmap.width <= pad_width
    /\ result = Ok(<<>>)

InitCodec == InitConvert \/ InitBuild

Convert ==
    /\ pc = "call_convert"
    /\ pc' = "ret_convert"
    /\ result' = convert_to_ssd1306_format(glyph_2d, g_width, g_height, hor_mode)
    /\ UNCHANGED <<codecArgs, hor_mode, glyphArgs, groupVars, appVars>>

BuildGlyph ==
    /\ pc = "call_build"
    /\ pc' = "ret_build"
    /\ result' = build_glyph(face_bitmap, glyph_w, glyph_h, left_fields, right_fields,
                             hor_mode, pad_width)
    /\ UNCHANGED <<codecArgs, hor_mode, glyphArgs, groupVars, appVars>>

NextCodec == Convert \/ BuildGlyph

SpecCodec == InitCodec /\ [][NextCodec]_vars

\* ------------------------------------------------- append_width, one call
InitNorm ==
    /\ pc = "call_append_width"
    /\ \E w \in 0..MaxW, h \in 0..MaxRows :
         /\ glyph_2d \in Bitmaps(w, h, MaxLit)
         /\ target_width \in 0..(w + MaxPad)
    /\ g_width = 0 /\ g_height = 0
    /\ hor_mode = FALSE
    /\ GlyphIdle /\ GroupIdle /\ AppIdle
    /\ result = Ok(<<>>)

AppendWidth ==
    /\ pc = "call_append_width"
    /\ pc' = "ret_append_width"
    /\ result' = append_width(glyph_2d, target_width)
    /\ UNCHANGED <<codecArgs, hor_mode, glyphArgs, groupVars, appVars>>

NextNorm == AppendWidth

SpecNorm == InitNorm /\ [][NextNorm]_vars

\* ------------------------- grouping a character list and looking a code up
InitGroups ==
    /\ pc = "parsed"
    /\ \E S \in SubsetsUpTo(CharUniverse, MaxChars) : chars = parse_chars_to_convert(S)
    /\ reduced_char_groups = <<>> /\ utf8_code = 0 /\ glyph_index = 0
    /\ CodecIdle /\ GlyphIdle /\ AppIdle
    /\ hor_mode = FALSE
    /\ result = Ok(<<>>)

\* codes the generated function is asked for: every character of the universe,
\* its neighbours, the raw code points and 0
ProbeCodes ==
    {utf_8_encode(c) + d : c \in CharUniverse, d \in {-1, 0, 1}} \cup CharUniverse \cup {0}

GroupChars ==
    /\ pc = "parsed"
    /\ pc' = "grouped"
    /\ reduced_char_groups' = groups_reduce(group_chars(chars))
    /\ UNCHANGED <<codecArgs, hor_mode, glyphArgs, result, chars, utf8_code, glyph_index,
                   appVars>>

Lookup ==
    /\ pc = "grouped"
    /\ pc' = "looked"
    /\ \E x \in ProbeCodes :
         /\ utf8_code' = x
         /\ glyph_index' = get_glyph_index(lookup_func(reduced_char_groups), x)
    /\ UNCHANGED <<codecArgs, hor_mode, glyphArgs, result, chars, reduced_char_groups,
                   appVars>>

NextGroups == GroupChars \/ Lookup

SpecGroups == InitGroups /\ [][NextGroups]_vars

\* ---------------------------------------------------------- a run of app()
Init ==
    /\ pc = "start"
    /\ CodecIdle /\ GroupIdle
    /\ face_bitmap = NoBitmap
    /\ glyph_w \in {NoneVal} \cup (0..MaxGlyphW)
    /\ glyph_h \in 0..MaxArgH
    /\ left_fields \in 0..MaxField
    /\ right_fields \in 0..MaxField
    /\ hor_mode \in BOOLEAN
    /\ glyph_width_equal \in BOOLEAN
    /\ pad_width = NoneVal
    /\ face = <<>> /\ ssd1306_glyph_data = <<>>
    /\ out_h_file = absent /\ out_c_file = absent
    /\ result = Ok(<<>>)

\* lines 456-471
OpenFiles ==
    /\ pc = "start"
    /\ pc' = "opened"
    /\ out_h_file' = open_w
    /\ out_c_file' = open_w
    /\ UNCHANGED <<codecArgs, hor_mode, glyphArgs, result, groupVars, face,
                   glyph_width_equal, ssd1306_glyph_data>>

\* lines 473-483
AdjustHeight ==
    /\ pc = "opened"
    /\ pc' = "parse"
    /\ glyph_h' = adjust_height(glyph_h)
    /\ UNCHANGED <<codecArgs, hor_mode, face_bitmap, glyph_w, left_fields, right_fields,
                   pad_width, result, groupVars, appVars>>

\* line 485; the font answers for each character of the list. Without
\* --chars, args.chars is None and the loop over it raises TypeError
ParseChars ==
    /\ pc = "parse"
    /\ \/ /\ pc' = "find_max"
          /\ \E S \in SUBSET AppChars :
               /\ chars' = parse_chars_to_convert(S)
               /\ face' \in [S -> AppFaceBitmaps]
       \/ /\ pc' = "aborted"
          /\ UNCHANGED <<chars, face>>
    /\ UNCHANGED <<codecArgs, hor_mode, glyphArgs, result, reduced_char_groups, utf8_code,
                   glyph_index, glyph_width_equal, ssd1306_glyph_data, out_h_file,
                   out_c_file>>

\* line 496: find_max_glyph_width loads every character at (0, glyph_h); that
\* is the size generate_glyph loads it at when glyph_w is absent or 0, and
\* another size, with widths of its own, otherwise
FindMaxGlyphWidth ==
    /\ pc = "find_max"
    /\ pc' = "glyphs"
    /\ IF ~glyph_width_equal \/ chars = <<>>
       THEN pad_width' = NoneVal
       ELSE IF glyph_w \in {NoneVal, 0}
            THEN pad_width' = SetMax({face[chars[k]].width : k \in 1..Len(chars)})
            ELSE pad_width' \in {b.width : b \in AppFaceBitmaps}
    /\ UNCHANGED <<codecArgs, hor_mode, face_bitmap, glyph_w, glyph_h, left_fields,
                   right_fields, result, groupVars, appVars>>

\* lines 273-301: build_glyph of the next character of the list
BuildNextGlyph ==
    /\ pc = "glyphs"
    /\ Len(ssd1306_glyph_data) < Len(chars)
    /\ LET char == chars[Len(ssd1306_glyph_data) + 1]
           built == build_glyph(face[char], glyph_w, glyph_h, left_fields, right_fields,
                                hor_mode, pad_width)
           after == after_glyph(built, ssd1306_glyph_data, char)
       IN  /\ face_bitmap' = face[char]
           /\ result' = built
           /\ pc' = after.pc
           /\ ssd1306_glyph_data' = after.data
    /\ UNCHANGED <<codecArgs, hor_mode, glyph_w, glyph_h, left_fields, right_fields,
                   pad_width, groupVars, face, glyph_width_equal, out_h_file, out_c_file>>

\* line 498
AppGroupChars ==
    /\ pc = "glyphs"
    /\ Len(ssd1306_glyph_data) = Len(chars)
    /\ pc' = "print"
    /\ reduced_char_groups' = groups_reduce(group_chars(chars))
    /\ UNCHANGED <<codecArgs, hor_mode, glyphArgs, result, chars, utf8_code, glyph_index,
                   appVars>>

\* line 500: ssd1306_glyph_data[0] of an empty list raises IndexError
PrintDone ==
    /\ pc = "print"
    /\ pc' = IF ssd1306_glyph_data = <<>> THEN "aborted" ELSE "write_h"
    /\ UNCHANGED <<codecArgs, hor_mode, glyphArgs, result, groupVars, appVars>>

\* lines 503-507
WriteHeader ==
    /\ pc = "write_h"
    /\ pc' = "write_c"
    /\ out_h_file' = [out_h_file EXCEPT !.text =
           @ \o << <<"top">>, <<"disclaimer">>,
                   <<"glyph_count", Len(ssd1306_glyph_data)>>,
                   <<"glyph_func_proto">>, <<"bottom">> >>]
    /\ UNCHANGED <<codecArgs, hor_mode, glyphArgs, result, groupVars, face,
                   glyph_width_equal, ssd1306_glyph_data, out_c_file>>

\* lines 510-514
WriteSource ==
    /\ pc = "write_c"
    /\ pc' = "close"
    /\ out_c_file' = [out_c_file EXCEPT !.text =
           @ \o << <<"include">>, <<"disclaimer">>,
                   <<"glyphs_array", ssd1306_glyph_data>>,
                   <<"lookup_func", lookup_func(reduced_char_groups)>>,
                   <<"glyph_func">> >>]
    /\ UNCHANGED <<codecArgs, hor_mode, glyphArgs, result, groupVars, face,
                   glyph_width_equal, ssd1306_glyph_data, out_h_file>>

\* lines 516-517
CloseFiles ==
    /\ pc = "close"
    /\ pc' = "done"
    /\ out_h_file' = [out_h_file EXCEPT !.state = "closed"]
    /\ out_c_file' = [out_c_file EXCEPT !.state = "closed"]
    /\ UNCHANGED <<codecArgs, hor_mode, glyphArgs, result, groupVars, face,
                   glyph_width_equal, ssd1306_glyph_data>>

Next ==
    \/ OpenFiles
    \/ AdjustHeight
    \/ ParseChars
    \/ FindMaxGlyphWidth
    \/ BuildNextGlyph
    \/ AppGroupChars
    \/ PrintDone
    \/ WriteHeader
    \/ WriteSource
    \/ CloseFiles

Spec == Init /\ [][Next]_vars

\* ================================================================ claims
Min2(a, b) == IF a < b THEN a ELSE b

\* the byte of column c, page p of g: bit y is the pixel of row 8p + y
PageByte(g, c, p) ==
    LET px(y) == g[ssd1306_page_size * p + y + 1][c + 1]
    IN  px(0) + 2 * px(1) + 4 * px(2) + 8 * px(3)
        + 16 * px(4) + 32 * px(5) + 64 * px(6) + 128 * px(7)

\* where the byte of column c, page p lies in the output (counted from 0)
ByteIndex(c, p, w, pages, hor) == IF hor THEN p * w + c ELSE c * pages + p

\* data holds the page bytes of the first w columns and first pages pages of g
Encodes(data, g, w, pages, hor) ==
    /\ Len(data) = w * pages
    /\ \A c \in 0..(w - 1), p \in 0..(pages - 1) :
         data[ByteIndex(c, p, w, pages, hor) + 1] = PageByte(g, c, p)

\* the inverse transform: the w x h bitmap a byte sequence stands for
Unpack(data, w, h, hor) ==
    [y \in 1..h |-> [x \in 1..w |->
        (data[ByteIndex(x - 1, (y - 1) \div ssd1306_page_size, w,
                        h \div ssd1306_page_size, hor) + 1]
            \div Pow2((y - 1) % ssd1306_page_size)) % 2]]

Canonical == g_width >= 1 /\ g_height >= 1 /\ g_height % ssd1306_page_size = 0

\* C1: for a canonical glyph (height a positive multiple of 8) and either
\* ordering, the byte of (column c, page p) is the sum of pixel[8p+y][c] << y
\* and lies at c*(h/8)+p (column-major) or p*w+c (horizontal).
C1_PageBytes ==
    (pc = "ret_convert" /\ Canonical) =>
        /\ result.err = ""
        /\ Encodes(result.val, glyph_2d, g_width, g_height \div ssd1306_page_size, hor_mode)

\* a 2 x 16 glyph whose only lit pixel is row 9 of column 1, horizontal mode:
\* bit 1 of the last byte
C1_Witness ==
    /\ pc = "ret_convert" /\ g_width = 2 /\ g_height = 16 /\ hor_mode
    /\ glyph_2d[10][2] = 1
    /\ result.val = <<0, 0, 0, 2>>

\* C2: unpacking the output of convert_to_ssd1306_format with the same width,
\* height and ordering gives the canonical glyph back, bit for bit.
C2_RoundTrip ==
    (pc = "ret_convert" /\ Canonical) =>
        /\ result.err = ""
        /\ Unpack(result.val, g_width, g_height, hor_mode) = glyph_2d

\* a two-page glyph whose pages differ, column-major
C2_Witness ==
    /\ pc = "ret_convert" /\ g_width = 2 /\ g_height = 16 /\ ~hor_mode
    /\ glyph_2d[1][1] = 0 /\ glyph_2d[9][1] = 1
    /\ result.val[1] # result.val[2]

\* C3: convert_to_ssd1306_format raises for a height that is not a multiple of
\* 8 and returns no byte sequence.
C3_RaisesOnBadHeight ==
    (pc = "ret_convert" /\ g_height % ssd1306_page_size # 0) => result.err # ""

\* C9: the output of convert_to_ssd1306_format has width * (height div 8)
\* entries, and build_glyph returns real_w, real_h and then real_w * (real_h
\* div 8) entries, real_w and real_h being the glyph's size cut to the
\* requested one.
C9_Lengths ==
    /\ (pc = "ret_convert" /\ result.err = "") =>
           Len(result.val) = g_width * (g_height \div ssd1306_page_size)
    /\ (pc = "ret_build" /\ result.err = "") =>
           LET real_w == IF glyph_w # NoneVal THEN Min2(glyph_w, Len(result.glyph[1]))
                         ELSE Len(result.glyph[1])
               real_h == Min2(glyph_h, Len(result.glyph))
           IN  /\ Len(result.val) = 2 + real_w * (real_h \div ssd1306_page_size)
               /\ result.val[1] = real_w
               /\ result.val[2] = real_h

\* build_glyph cut a 2-wide glyph to 1 x 16 and returned 2 + 2 entries
C9_Witness ==
    /\ pc = "ret_build" /\ result.err = "" /\ result.warn_w
    /\ Len(result.glyph[1]) = 2
    /\ result.val[1] = 1 /\ result.val[2] = 16 /\ Len(result.val) = 4

RasterNonEmpty == face_bitmap.width >= 1 /\ face_bitmap.rows >= 1

\* C7: a rasterized glyph wider or taller than the requested box (no pad_width
\* in play) is cut, not refused: build_glyph returns, and the width and
\* height it hands the codec are min(requested, actual).
C7_OversizedClipped ==
    (/\ pc = "ret_build" /\ pad_width = NoneVal /\ RasterNonEmpty
     /\ \/ (glyph_w # NoneVal /\ face_bitmap.width > glyph_w)
        \/ face_bitmap.rows > glyph_h)
    => /\ result.err = ""
       /\ result.val[1] = (IF glyph_w # NoneVal THEN Min2(glyph_w, Len(result.glyph[1]))
                           ELSE Len(result.glyph[1]))
       /\ result.val[2] = Min2(glyph_h, Len(result.glyph))

\* C10: with a target width W >= 1, a raster that fits it and margins L and R,
\* the packed glyph has real_width W + L + R and encodes every column of the
\* canonical glyph.
C10_MarginsSurvive ==
    (/\ pc = "ret_build" /\ pad_width = NoneVal /\ RasterNonEmpty
     /\ glyph_w >= 1 /\ face_bitmap.width <= glyph_w)
    => /\ result.err = ""
       /\ result.val[1] = glyph_w + left_fields + right_fields
       /\ Encodes(SubSeq(result.val, 3, Len(result.val)), result.glyph,
                  glyph_w + left_fields + right_fields,
                  result.val[2] \div ssd1306_page_size, hor_mode)

\* C6: for a bitmap with at least one row and one column and target_width t no
\* smaller than its width w, append_width returns rows of width t: (t-w) div 2
\* zeros, the row, then the remaining zeros; t = w changes nothing, t = w + 3
\* puts 1 zero column left and 2 right.
C6_AppendWidth ==
    (/\ pc = "ret_append_width" /\ Len(glyph_2d) >= 1 /\ Len(glyph_2d[1]) >= 1
     /\ target_width >= Len(glyph_2d[1]))
    => LET w == Len(glyph_2d[1])
           t == target_width
           left == (t - w) \div 2
       IN  /\ result.err = ""
           /\ Len(result.val) = Len(glyph_2d)
           /\ \A r \in 1..Len(glyph_2d) :
                /\ Len(result.val[r]) = t
                /\ \A x \in 1..t :
                     result.val[r][x] = IF left < x /\ x <= left + w
                                        THEN glyph_2d[r][x - left] ELSE 0
           /\ t = w => result.val = glyph_2d
           /\ t = w + 3 => \A r \in 1..Len(glyph_2d) :
                               /\ result.val[r][1] = 0
                               /\ SubSeq(result.val[r], 2, w + 1) = glyph_2d[r]
                               /\ result.val[r][w + 2] = 0
                               /\ result.val[r][w + 3] = 0

\* a lit 2-wide row widened by 3
C6_Witness ==
    /\ pc = "ret_append_width" /\ target_width = 5
    /\ Len(glyph_2d) >= 1
    /\ glyph_2d[1] = <<1, 1>>
    /\ result.val[1] = <<0, 1, 1, 0, 0>>

\* the codes of the list, in order
Codes == [i \in 1..Len(chars) |-> utf_8_encode(chars[i])]

\* C4: the generated range checks return i for the code of chars[i] and 0 for
\* a code that is not in the list; every code in a group's range is the code
\* of some chars[i] with i = code - offset, and the ranges do not overlap.
C4_Lookup ==
    pc = "looked" =>
        /\ \A i \in 1..Len(chars) : utf8_code = Codes[i] => glyph_index = i - 1
        /\ (\A i \in 1..Len(chars) : utf8_code # Codes[i]) => glyph_index = 0
        /\ \A k \in 1..Len(reduced_char_groups) :
             LET st == c_gen_group_if(reduced_char_groups[k])
                 inside == {i \in 1..Len(chars) :
                               st.item_min <= Codes[i] /\ Codes[i] <= st.item_max}
             IN  /\ st.item_min <= st.item_max
                 /\ Cardinality(inside) = st.item_max - st.item_min + 1
                 /\ \A i \in inside : i - 1 = Codes[i] - st.offset
        /\ \A k, l \in 1..Len(reduced_char_groups) :
             k < l => c_gen_group_if(reduced_char_groups[k]).item_max
                        < c_gen_group_if(reduced_char_groups[l]).item_min

\* the third character of a list of two groups is looked up
C4_Witness ==
    /\ pc = "looked" /\ Len(chars) = 3 /\ Len(reduced_char_groups) = 2
    /\ utf8_code = Codes[3] /\ glyph_index = 2

\* the places where the next code is not the code plus one
Breaks == {i \in 1..(Len(chars) - 1) : Codes[i + 1] # Codes[i] + 1}

GroupsAscending ==
    \A k \in 1..(Len(reduced_char_groups) - 1) :
        utf_8_encode(reduced_char_groups[k][3]) < utf_8_encode(reduced_char_groups[k + 1][2])

\* C5, as claimed: group_chars yields 1 + (number of breaks) groups, in
\* ascending order, for every strictly ascending input.
C5_GroupCount ==
    pc = "grouped" =>
        /\ Len(reduced_char_groups) = 1 + Cardinality(Breaks)
        /\ GroupsAscending

\* C5, amended: that holds for every non-empty input; the empty list yields no
\* group.
C5_GroupCountNonEmpty ==
    pc = "grouped" =>
        /\ chars # <<>> => Len(reduced_char_groups) = 1 + Cardinality(Breaks)
        /\ chars = <<>> => reduced_char_groups = <<>>
        /\ GroupsAscending

\* three characters, one break
C5_Witness ==
    /\ pc = "grouped" /\ Len(chars) = 3 /\ Cardinality(Breaks) = 1
    /\ Len(reduced_char_groups) = 2

\* every character of the list has its packed glyph in the table
AllPacked ==
    /\ Len(ssd1306_glyph_data) = Len(chars)
    /\ \A k \in 1..Len(chars) :
         /\ ssd1306_glyph_data[k][1] = chars[k]
         /\ Len(ssd1306_glyph_data[k][2]) >= 2

\* C8: a run that fails leaves both artifacts without content, and content is
\* written only after every glyph is packed and the groups are built.
C8_FailFast ==
    /\ pc = "aborted" => Len(out_h_file.text) = 0 /\ Len(out_c_file.text) = 0
    /\ (Len(out_h_file.text) > 0 \/ Len(out_c_file.text) > 0) =>
           /\ AllPacked
           /\ chars # <<>>
           /\ reduced_char_groups = groups_reduce(group_chars(chars))
    /\ pc = "done" => Len(out_h_file.text) > 0 /\ Len(out_c_file.text) > 0

\* the second character fails after the first was packed
C8_Witness ==
    /\ pc = "aborted" /\ Len(chars) = 2 /\ Len(ssd1306_glyph_data) = 1
    /\ result.err # ""
    /\ out_h_file.state = "open" /\ out_c_file.state = "open"

====
